---- MODULE Spec2Model ----
(***************************************************************************)
(* A model of the adjunct text-graph library:                              *)
(*   - EffectGraph (empty, singleton, addNode, getNode, getChildren,       *)
(*     getRoots, cata, map) over Effect's directed Graph,                  *)
(*   - GraphOps / TextGraph (addChildren, dfs, bfs) over a DirectedGraph,  *)
(*   - CorpusOps (documentStatistics, combineStatistics,                   *)
(*     aggregateStatistics, aggregateStatisticsParallel).                  *)
(***************************************************************************)
EXTENDS Integers, Sequences, FiniteSets, TLC

\* ------------------------------------------------------------------------
\* Bounds of the model
\* ------------------------------------------------------------------------

\* Largest number of nodes an EffectGraph is grown to.
MaxNodes == 3

\* Node identifiers a caller may pass (NodeId.make / NodeId.generate).
NodeIds == {"a", "b"}

\* Node payloads.
Payloads == {1, 2}

\* Option.none() for an Option<NodeId>.
None == "none"

\* ------------------------------------------------------------------------
\* Small helpers
\* ------------------------------------------------------------------------

EmptyFn == [x \in {} |-> 0]

Min(S) == CHOOSE x \in S : \A y \in S : x <= y

RECURSIVE SortedSeq(_)
\* The elements of a finite set of integers in ascending order.
SortedSeq(S) == IF S = {} THEN <<>> ELSE <<Min(S)>> \o SortedSeq(S \ {Min(S)})

Range(s) == {s[i] : i \in DOMAIN s}

\* ------------------------------------------------------------------------
\* Effect's Graph module as the repository uses it.  A graph value holds its
\* nodes and edges keyed by dense indices handed out in increasing order;
\* iteration over nodes, edges and adjacency lists follows insertion order,
\* which is ascending index order.
\* ------------------------------------------------------------------------

\* Graph.directed()
GraphDirected ==
  [nodes |-> EmptyFn, edges |-> EmptyFn, nextNodeIndex |-> 0, nextEdgeIndex |-> 0]

\* Graph.addNode(mutable, data): the new node takes index nextNodeIndex.
GraphAddNode(g, data) ==
  [g EXCEPT !.nodes = (g.nextNodeIndex :> data) @@ g.nodes,
            !.nextNodeIndex = g.nextNodeIndex + 1]

\* Graph.addEdge(mutable, source, target, data): both ends must exist.
GraphAddEdge(g, source, target) ==
  [g EXCEPT !.edges = (g.nextEdgeIndex :> [source |-> source, target |-> target]) @@ g.edges,
            !.nextEdgeIndex = g.nextEdgeIndex + 1]

GraphHasNode(g, idx) == idx \in DOMAIN g.nodes

\* Graph.neighbors(graph, idx): targets of idx's outgoing edges, in edge order.
GraphNeighbors(g, idx) ==
  LET out == SortedSeq({e \in DOMAIN g.edges : g.edges[e].source = idx})
  IN [k \in 1..Len(out) |-> g.edges[out[k]].target]

\* Graph.indices(Graph.nodes(graph))
GraphNodeIndices(g) == SortedSeq(DOMAIN g.nodes)

\* Graph.indices(Graph.externals(graph, { direction: "incoming" })):
\* the nodes no edge points to.
GraphExternalsIncoming(g) ==
  SortedSeq({i \in DOMAIN g.nodes : \A e \in DOMAIN g.edges : g.edges[e].target # i})

Targets(g, S) == {g.edges[e].target : e \in {x \in DOMAIN g.edges : g.edges[x].source \in S}}

RECURSIVE ReachFrom(_, _)
\* Least set holding S and closed under following edges.
ReachFrom(g, S) ==
  LET T == S \cup Targets(g, S) IN IF T = S THEN S ELSE ReachFrom(g, T)

\* Graph.isAcyclic(graph): no node is reached from its own successors.
GraphIsAcyclic(g) ==
  \A i \in DOMAIN g.nodes : i \notin ReachFrom(g, Targets(g, {i}))

\* ------------------------------------------------------------------------
\* EffectGraph
\* ------------------------------------------------------------------------

\* makeNode(data, parentId) with the id the generator (or NodeId.make) gave.
makeNode(id, data, parentId) ==
  [id |-> id, data |-> data, parentId |-> parentId,
   depth |-> IF parentId = None THEN 0 ELSE 1]

\* empty()
empty == [graph |-> GraphDirected, nodeIdToIndex |-> EmptyFn, indexToNodeId |-> EmptyFn]

\* singleton(data)
singleton(id, data) ==
  LET node == makeNode(id, data, None)
      nodeIndex == GraphDirected.nextNodeIndex
  IN [graph |-> GraphAddNode(GraphDirected, node),
      nodeIdToIndex |-> (node.id :> nodeIndex),
      indexToNodeId |-> (nodeIndex :> node.id)]

\* HashMap.set(m, k, v)
HashMapSet(m, k, v) == [x \in DOMAIN m \cup {k} |-> IF x = k THEN v ELSE m[x]]

\* Graph.findNodes(graph, (n) => n.id === id)
GraphFindNodesById(g, id) == SortedSeq({i \in DOMAIN g.nodes : g.nodes[i].id = id})

\* The node addNode stores: depth recomputed from the parent found through
\* nodeIdToIndex, with parent depth 0 when the parent cannot be found.
UpdatedNode(effectGraph, node) ==
  IF node.parentId = None THEN node
  ELSE LET found == node.parentId \in DOMAIN effectGraph.nodeIdToIndex
           parentDepth ==
             IF found /\ GraphHasNode(effectGraph.graph, effectGraph.nodeIdToIndex[node.parentId])
             THEN effectGraph.graph.nodes[effectGraph.nodeIdToIndex[node.parentId]].depth
             ELSE 0
       IN [node EXCEPT !.depth = parentDepth + 1]

\* Variant of AddNodeGraph that resolves the parent after the new node has
\* been registered, so a node naming itself as parent gets an edge to itself.
AddNodeGraphLateLookup(effectGraph, node) ==
  LET updatedNode == UpdatedNode(effectGraph, node)
      nodeIndex == effectGraph.graph.nextNodeIndex
      g1 == GraphAddNode(effectGraph.graph, updatedNode)
      lookup == HashMapSet(effectGraph.nodeIdToIndex, updatedNode.id, nodeIndex)
  IN IF node.parentId # None /\ node.parentId \in DOMAIN lookup
     THEN GraphAddEdge(g1, lookup[node.parentId], nodeIndex)
     ELSE g1

\* The Graph.mutate block of addNode: add the node, then the parent -> child
\* edge when the parent id resolves in the graph that was passed in.
AddNodeGraph(effectGraph, node) ==
  LET updatedNode == UpdatedNode(effectGraph, node)
      nodeIndex == effectGraph.graph.nextNodeIndex
      g1 == GraphAddNode(effectGraph.graph, updatedNode)
  IN IF node.parentId # None /\ node.parentId \in DOMAIN effectGraph.nodeIdToIndex
     THEN GraphAddEdge(g1, effectGraph.nodeIdToIndex[node.parentId], nodeIndex)
     ELSE g1

\* addNode(effectGraph, node)
addNode(effectGraph, node) ==
  LET updatedNode == UpdatedNode(effectGraph, node)
      newGraph == AddNodeGraph(effectGraph, node)
      newNodeIndex == GraphFindNodesById(newGraph, updatedNode.id)[1]
  IN [graph |-> newGraph,
      nodeIdToIndex |-> HashMapSet(effectGraph.nodeIdToIndex, updatedNode.id, newNodeIndex),
      indexToNodeId |-> HashMapSet(effectGraph.indexToNodeId, newNodeIndex, updatedNode.id)]

\* Variant of ArgumentAfterCall for an addNode that edits the graph and the
\* maps it was given in place: the caller's value becomes the result.
ArgumentEditedInPlace(before, after) == after

\* What a caller holding `before` sees once a call that produced `after` has
\* returned: Graph.mutate works on a copy and HashMap.set is persistent, so
\* the value passed in is still `before`.
ArgumentAfterCall(before, after) == before

\* getNode(graph, nodeId); NoNode when the id does not resolve.
NoNode == [id |-> None]

getNode(graph, nodeId) ==
  IF nodeId \in DOMAIN graph.nodeIdToIndex /\ GraphHasNode(graph.graph, graph.nodeIdToIndex[nodeId])
  THEN graph.graph.nodes[graph.nodeIdToIndex[nodeId]]
  ELSE NoNode

\* Variant of getChildren that also leaves out the children whose id does
\* not resolve through getNode.
getChildrenSkipUnresolved(graph, nodeId) ==
  IF nodeId \notin DOMAIN graph.nodeIdToIndex THEN <<>>
  ELSE LET childIndices == GraphNeighbors(graph.graph, graph.nodeIdToIndex[nodeId])
           present == SelectSeq(childIndices,
                                LAMBDA c : /\ GraphHasNode(graph.graph, c)
                                           /\ getNode(graph, graph.graph.nodes[c].id) # NoNode)
       IN [k \in 1..Len(present) |-> graph.graph.nodes[present[k]]]

\* getChildren(graph, nodeId): the nodes at the neighbours of the id's index.
getChildren(graph, nodeId) ==
  IF nodeId \notin DOMAIN graph.nodeIdToIndex THEN <<>>
  ELSE LET childIndices == GraphNeighbors(graph.graph, graph.nodeIdToIndex[nodeId])
           present == SelectSeq(childIndices, LAMBDA c : GraphHasNode(graph.graph, c))
       IN [k \in 1..Len(present) |-> graph.graph.nodes[present[k]]]

\* getRoots(graph): the nodes without incoming edges.
getRoots(graph) ==
  LET rootIndices == GraphExternalsIncoming(graph.graph)
  IN [k \in 1..Len(rootIndices) |-> graph.graph.nodes[rootIndices[k]]]

\* size(graph)
size(graph) == Cardinality(DOMAIN graph.graph.nodes)

\* ------------------------------------------------------------------------
\* cata: bottom-up fold with a memo keyed by NodeId
\* ------------------------------------------------------------------------

\* The algebra the fold is run with: it records the node it is applied to and
\* the children results it is handed, in the order it is handed them.
algebra(node, children) == [id |-> node.id, data |-> node.data, children |-> children]

CataStart == [memo |-> EmptyFn, log |-> <<>>, outcome |-> "ok", values |-> <<>>]

RECURSIVE go(_, _, _, _)
RECURSIVE goAll(_, _, _, _)

\* go(nodeId): memo hit, else resolve the node, fold its children in order,
\* apply the algebra and memoise.  `active` holds the ids whose go is still
\* running: entering one of them again is a recursion that never returns.
\* The state returned carries the value of this call as the last of `values`.
go(graph, nodeId, active, st) ==
  IF st.outcome # "ok" THEN st
  ELSE IF nodeId \in DOMAIN st.memo
    THEN [st EXCEPT !.values = <<st.memo[nodeId]>>]
  ELSE IF nodeId \in active
    THEN [st EXCEPT !.outcome = "diverges"]
  ELSE IF getNode(graph, nodeId) = NoNode
    THEN [st EXCEPT !.outcome = "NodeNotFound"]
  ELSE
    LET node == getNode(graph, nodeId)
        childNodes == getChildren(graph, nodeId)
        childIds == [k \in 1..Len(childNodes) |-> childNodes[k].id]
        done == goAll(graph, childIds, active \cup {nodeId}, [st EXCEPT !.values = <<>>])
        result == algebra(node, done.values)
    IN IF done.outcome # "ok" THEN done
       ELSE [memo |-> HashMapSet(done.memo, nodeId, result),
             log |-> Append(done.log,
                            [id |-> nodeId, index |-> graph.nodeIdToIndex[nodeId],
                             children |-> done.values]),
             outcome |-> "ok",
             values |-> <<result>>]

\* Effect.all(ids.map(go)): the calls run one after the other, results in order.
goAll(graph, ids, active, st) ==
  IF ids = <<>> \/ st.outcome # "ok" THEN st
  ELSE LET first == go(graph, Head(ids), active, [st EXCEPT !.values = <<>>])
           rest == goAll(graph, Tail(ids), active, [first EXCEPT !.values = <<>>])
       IN IF first.outcome # "ok" THEN first
          ELSE [rest EXCEPT !.values = first.values \o rest.values]

\* cata(graph, algebra): one result per root.
cata(graph) ==
  LET roots == getRoots(graph)
      rootIds == [k \in 1..Len(roots) |-> roots[k].id]
  IN goAll(graph, rootIds, {}, CataStart)

\* ------------------------------------------------------------------------
\* map: rebuild the graph with mapped payloads
\* ------------------------------------------------------------------------

Identity == [d \in Payloads |-> d]

Swap == [d \in Payloads |-> IF d = 1 THEN 2 ELSE 1]

ConstOne == [d \in Payloads |-> 1]

\* Functions a caller may map with.
Fns == {Identity, Swap, ConstOne}

Compose(g2, f) == [d \in Payloads |-> g2[f[d]]]

\* Variant of MappedNode that rebuilds the node through makeNode, so the
\* depth stored at insertion is replaced by makeNode's 0 or 1.
MappedNodeRebuilt(node, f) == makeNode(node.id, f[node.data], node.parentId)

\* The mapped node: the node spread, with data replaced by f(data).
MappedNode(node, f) == [node EXCEPT !.data = f[node.data]]

\* Variant of MapEdge that adds the edge from the target to the source.
MapEdgeReversed(g, indexMap, edge) ==
  GraphAddEdge(g, indexMap[edge.target], indexMap[edge.source])

\* One step of the edge loop of map.
MapEdge(g, indexMap, edge) ==
  GraphAddEdge(g, indexMap[edge.source], indexMap[edge.target])

RECURSIVE MapNodesLoop(_, _, _, _)
\* The node loop of map over Graph.nodes(graph.graph), in index order.
\* acc = [g, nodeMap, indexMap].
MapNodesLoop(graph, f, todo, acc) ==
  IF todo = <<>> THEN acc
  ELSE LET oldIdx == Head(todo)
           mappedNode == MappedNode(graph.graph.nodes[oldIdx], f)
           newIdx == acc.g.nextNodeIndex
       IN MapNodesLoop(graph, f, Tail(todo),
            [g |-> GraphAddNode(acc.g, mappedNode),
             nodeMap |-> HashMapSet(acc.nodeMap, mappedNode.id, newIdx),
             indexMap |-> HashMapSet(acc.indexMap, oldIdx, newIdx)])

RECURSIVE MapEdgesLoop(_, _, _, _)
\* The edge loop of map over Graph.edges(graph.graph), in edge order.
MapEdgesLoop(graph, todo, indexMap, g) ==
  IF todo = <<>> THEN g
  ELSE MapEdgesLoop(graph, Tail(todo), indexMap,
                    MapEdge(g, indexMap, graph.graph.edges[Head(todo)]))

\* map(graph, f)
map(graph, f) ==
  LET afterNodes == MapNodesLoop(graph, f, GraphNodeIndices(graph.graph),
                      [g |-> GraphDirected, nodeMap |-> EmptyFn, indexMap |-> EmptyFn])
      newGraph == MapEdgesLoop(graph, SortedSeq(DOMAIN graph.graph.edges),
                               afterNodes.indexMap, afterNodes.g)
  IN [graph |-> newGraph,
      nodeIdToIndex |-> afterNodes.nodeMap,
      indexToNodeId |-> [i \in {afterNodes.nodeMap[id] : id \in DOMAIN afterNodes.nodeMap} |->
                           CHOOSE id \in DOMAIN afterNodes.nodeMap : afterNodes.nodeMap[id] = i]]

\* The parent -> child edges of a graph as pairs of node ids.
EdgeIds(g) == {<<g.nodes[g.edges[e].source].id, g.nodes[g.edges[e].target].id>> : e \in DOMAIN g.edges}

\* ------------------------------------------------------------------------
\* TextGraph and GraphOps over a DirectedGraph
\* ------------------------------------------------------------------------

\* Largest number of nodes and of edges a TextGraph is grown to.
MaxTextNodes == 3

MaxEdges == 3

\* Longest children list passed to addChildren, longest start list of a walk.
MaxChildren == 2

MaxStart == 2

\* new S.TextNode({ text, type, ... })
TextNode(text, type) == [text |-> text, type |-> type]

\* TextGraph.empty()
emptyTextGraph == GraphDirected

\* TextGraph.singleton(text, type)
singletonTextGraph(text, type) == GraphAddNode(GraphDirected, TextNode(text, type))

RECURSIVE AddChildrenLoop(_, _, _)
\* The Graph.mutate block of addChildren: each child is added as a node and
\* linked from parentIndex.
AddChildrenLoop(g, parentIndex, children) ==
  IF children = <<>> THEN g
  ELSE LET childIndex == g.nextNodeIndex
           g1 == GraphAddNode(g, Head(children))
       IN AddChildrenLoop(GraphAddEdge(g1, parentIndex, childIndex), parentIndex, Tail(children))

\* addChildren(graph, parentIndex, children, relation): the candidate graph is
\* returned only when it is acyclic; Graph.addEdge throws for a parent index
\* that is not in the graph.
addChildren(graph, parentIndex, children) ==
  IF children # <<>> /\ ~GraphHasNode(graph, parentIndex)
  THEN [outcome |-> "NodeMissing", graph |-> graph]
  ELSE LET candidateGraph == AddChildrenLoop(graph, parentIndex, children)
       IN IF ~GraphIsAcyclic(candidateGraph)
          THEN [outcome |-> "CycleError", graph |-> graph]
          ELSE [outcome |-> "ok", graph |-> candidateGraph]

\* ------------------------------------------------------------------------
\* tokenizeNodes
\* ------------------------------------------------------------------------

\* Most nodes a graph may hold after a tokenizeNodes call of a run.
MaxTokenized == 7

\* NLP.tokenize as a deterministic service: the token list depends on the
\* text alone.
Tokenizers == {"none", "one", "two"}

Tokenize(tokenizer, text) ==
  CASE tokenizer = "none" -> <<>>
    [] tokenizer = "one" -> <<text>>
    [] tokenizer = "two" -> <<text, text>>

\* The sentence nodes of the graph the call was given, in index order.
SentenceNodes(graph) ==
  SortedSeq({idx \in DOMAIN graph.nodes : graph.nodes[idx].type = "sentence"})

\* The guard without its test: no sentence counts as tokenized.
hasTokenChildrenNever(result, idx) == FALSE

\* children.some(child is a node of type "token") over getChildren(result, idx)
hasTokenChildren(result, idx) ==
  \E k \in DOMAIN GraphNeighbors(result, idx) :
    LET childIdx == GraphNeighbors(result, idx)[k]
    IN GraphHasNode(result, childIdx) /\ result.nodes[childIdx].type = "token"

RECURSIVE AddTokensLoop(_, _, _)
\* The Graph.mutate block: each token becomes a token node linked from idx.
AddTokensLoop(g, idx, tokens) ==
  IF tokens = <<>> THEN g
  ELSE LET tokenNode == g.nextNodeIndex
           g1 == GraphAddNode(g, TextNode(Head(tokens), "token"))
       IN AddTokensLoop(GraphAddEdge(g1, idx, tokenNode), idx, Tail(tokens))

RECURSIVE TokenizeLoop(_, _, _, _)
\* The for loop over sentenceNodes; the guard reads the graph built so far.
TokenizeLoop(graph, result, sentences, tokenizer) ==
  IF sentences = <<>> THEN result
  ELSE LET idx == Head(sentences)
       IN IF hasTokenChildren(result, idx)
          THEN TokenizeLoop(graph, result, Tail(sentences), tokenizer)
          ELSE TokenizeLoop(graph,
                            AddTokensLoop(result, idx, Tokenize(tokenizer, graph.nodes[idx].text)),
                            Tail(sentences), tokenizer)

\* tokenizeNodes(graph) run with one tokenizer service
tokenizeNodes(graph, tokenizer) ==
  TokenizeLoop(graph, graph, SentenceNodes(graph), tokenizer)

Reverse(s) == [k \in 1..Len(s) |-> s[Len(s) + 1 - k]]

RECURSIVE DfsLoop(_, _, _, _)
\* The iterator of Graph.dfs: pop, skip a discovered node, mark, push the
\* undiscovered neighbours last-to-first, yield.
DfsLoop(g, stack, discovered, out) ==
  IF stack = <<>> THEN out
  ELSE LET current == stack[Len(stack)]
           popped == SubSeq(stack, 1, Len(stack) - 1)
       IN IF current \in discovered THEN DfsLoop(g, popped, discovered, out)
          ELSE LET seen == discovered \cup {current}
                   fresh == SelectSeq(GraphNeighbors(g, current), LAMBDA n : n \notin seen)
               IN DfsLoop(g, popped \o Reverse(fresh), seen, Append(out, current))

RECURSIVE BfsLoop(_, _, _, _)
\* The iterator of Graph.bfs: shift, skip a discovered node, mark, enqueue
\* the undiscovered neighbours, yield.
BfsLoop(g, queue, discovered, out) ==
  IF queue = <<>> THEN out
  ELSE LET current == Head(queue)
       IN IF current \in discovered THEN BfsLoop(g, Tail(queue), discovered, out)
          ELSE LET seen == discovered \cup {current}
                   fresh == SelectSeq(GraphNeighbors(g, current), LAMBDA n : n \notin seen)
               IN BfsLoop(g, Tail(queue) \o fresh, seen, Append(out, current))

\* Variant of TopoInDegree that counts an edge at its source.
TopoOutDegree(g) ==
  [n \in DOMAIN g.nodes |->
     Cardinality({e \in DOMAIN g.edges : g.edges[e].source = n})]

\* The in-degree table the iterator of Graph.topo starts from.
TopoInDegree(g) ==
  [n \in DOMAIN g.nodes |->
     Cardinality({e \in DOMAIN g.edges : g.edges[e].target = n})]

RECURSIVE TopoRelax(_, _, _, _)
\* The loop of Graph.topo over the neighbours of the node just taken: each
\* remaining neighbour loses one in-degree and is queued when it reaches 0.
\* acc = [inDegree, pushed].
TopoRelax(neighbors, remaining, inDegree, pushed) ==
  IF neighbors = <<>> THEN [inDegree |-> inDegree, pushed |-> pushed]
  ELSE LET neighbor == Head(neighbors)
       IN IF neighbor \in remaining
          THEN LET newInDegree == inDegree[neighbor] - 1
               IN TopoRelax(Tail(neighbors), remaining,
                            [inDegree EXCEPT ![neighbor] = newInDegree],
                            IF newInDegree = 0 THEN Append(pushed, neighbor) ELSE pushed)
          ELSE TopoRelax(Tail(neighbors), remaining, inDegree, pushed)

RECURSIVE TopoLoop(_, _, _, _, _)
\* The iterator of Graph.topo: shift, skip a node already taken, take it,
\* relax its neighbours, yield.
TopoLoop(g, queue, remaining, inDegree, out) ==
  IF queue = <<>> THEN out
  ELSE LET current == Head(queue)
       IN IF current \notin remaining
          THEN TopoLoop(g, Tail(queue), remaining, inDegree, out)
          ELSE LET rest == remaining \ {current}
                   step == TopoRelax(GraphNeighbors(g, current), rest, inDegree, <<>>)
               IN TopoLoop(g, Tail(queue) \o step.pushed, rest, step.inDegree,
                           Append(out, current))

\* Graph.topo(graph): throws on a cyclic graph; without initials the queue
\* starts with the nodes of in-degree 0, in index order.
GraphTopo(g) ==
  IF ~GraphIsAcyclic(g) THEN [outcome |-> "CyclicGraph", visited |-> <<>>]
  ELSE LET inDegree == TopoInDegree(g)
           zero == SelectSeq(GraphNodeIndices(g), LAMBDA n : inDegree[n] = 0)
       IN [outcome |-> "ok",
           visited |-> TopoLoop(g, zero, DOMAIN g.nodes, inDegree, <<>>)]

\* Graph.dfs / Graph.bfs (graph, { start }): every start index must be a node.
GraphWalk(g, start, order) ==
  IF \E k \in DOMAIN start : ~GraphHasNode(g, start[k])
  THEN [outcome |-> "NodeMissing", visited |-> <<>>]
  ELSE [outcome |-> "ok",
        visited |-> IF order = "dfs" THEN DfsLoop(g, start, {}, <<>>)
                    ELSE BfsLoop(g, start, {}, <<>>)]

\* Variant of createWalker that calls Graph.dfs / Graph.bfs without options.
createWalkerNoOptions(graph, start, order) == GraphWalk(graph, <<>>, order)

\* createWalker(graph, start, order).  For "dfs" and "bfs" the start list is
\* passed on when it is not empty; without options the library starts from
\* no node.  For "topo" the start list is not passed on.
createWalker(graph, start, order) ==
  IF order = "topo" THEN GraphTopo(graph)
  ELSE IF Len(start) > 0 THEN GraphWalk(graph, start, order)
  ELSE GraphWalk(graph, <<>>, order)

\* collectTraversal(graph, start, order): the nodes in the order the walker
\* yields them (kept as indices).
collectTraversal(graph, start, order) == createWalker(graph, start, order)

\* All sequences over S of length at most n.
SeqsUpTo(S, n) == UNION {[1..k -> S] : k \in 0..n}

\* ------------------------------------------------------------------------
\* filterNodes (GraphOps and TextGraph): Graph.mutate with Graph.filterNodes
\* ------------------------------------------------------------------------

\* Predicates a caller may filter TextNodes with.
Predicates == {"isToken", "isSentence", "notSentence", "notDocument", "all", "none"}

\* predicate(node)
Predicate(predicate, node) ==
  CASE predicate = "isToken" -> node.type = "token"
    [] predicate = "isSentence" -> node.type = "sentence"
    [] predicate = "notSentence" -> node.type # "sentence"
    [] predicate = "notDocument" -> node.type # "document"
    [] predicate = "all" -> TRUE
    [] predicate = "none" -> FALSE

\* Variant of GraphRemoveNode that removes the node and the edges into it
\* and leaves the edges out of it.
GraphRemoveNodeKeepOutgoing(g, idx) ==
  [g EXCEPT
     !.nodes = [i \in DOMAIN g.nodes \ {idx} |-> g.nodes[i]],
     !.edges = [e \in {x \in DOMAIN g.edges : g.edges[x].target # idx} |-> g.edges[e]]]

\* Graph.removeNode(mutable, idx): the node goes and with it every edge into
\* it and out of it; the other nodes keep their indices.
GraphRemoveNode(g, idx) ==
  [g EXCEPT
     !.nodes = [i \in DOMAIN g.nodes \ {idx} |-> g.nodes[i]],
     !.edges = [e \in {x \in DOMAIN g.edges : /\ g.edges[x].source # idx
                                             /\ g.edges[x].target # idx} |-> g.edges[e]]]

RECURSIVE RemoveNodesLoop(_, _)
RemoveNodesLoop(g, nodesToRemove) ==
  IF nodesToRemove = <<>> THEN g
  ELSE RemoveNodesLoop(GraphRemoveNode(g, Head(nodesToRemove)), Tail(nodesToRemove))

\* Graph.filterNodes(mutable, predicate): the nodes failing the predicate are
\* collected first, then removed one by one.
GraphFilterNodes(g, predicate) ==
  RemoveNodesLoop(g, SelectSeq(GraphNodeIndices(g),
                               LAMBDA i : ~Predicate(predicate, g.nodes[i])))

\* filterNodes(graph, predicate): Graph.mutate works on a copy of graph.
filterNodes(graph, predicate) == GraphFilterNodes(graph, predicate)

\* ------------------------------------------------------------------------
\* Search index (GraphOps): buildIndex, queryIndex, queryIndexUnion,
\* queryIndexIntersection.  Keys are strings, compared by value as the Map
\* of the index compares primitive keys.
\* ------------------------------------------------------------------------

\* Longest list of keys passed to a multi-key query.
MaxKeys == 3

\* Search keys a query may name; "absent" is emitted by no node.
Keys == {"document", "sentence", "token", "w", "absent"}

\* Key functions a caller may index with.
KeyFns == {"type", "typeAndText", "typeTwice", "tokensOnly"}

\* keyFn(node)
KeyFn(keyFn, node) ==
  CASE keyFn = "type" -> <<node.type>>
    [] keyFn = "typeAndText" -> <<node.type, node.text>>
    [] keyFn = "typeTwice" -> <<node.type, node.type>>
    [] keyFn = "tokensOnly" -> IF node.type = "token" THEN <<node.text>> ELSE <<>>

\* Variant of IndexPush that stores the node alone under the key.
IndexPushOverwrite(index, key, idx) == (key :> <<idx>>) @@ index

\* One step of keys.forEach in buildIndex: idx is pushed on the list kept
\* under key (a new list when the key is new).
IndexPush(index, key, idx) ==
  LET existing == IF key \in DOMAIN index THEN index[key] ELSE <<>>
  IN (key :> Append(existing, idx)) @@ index

RECURSIVE IndexKeysLoop(_, _, _)
IndexKeysLoop(index, keys, idx) ==
  IF keys = <<>> THEN index
  ELSE IndexKeysLoop(IndexPush(index, Head(keys), idx), Tail(keys), idx)

RECURSIVE BuildIndexLoop(_, _, _, _)
BuildIndexLoop(graph, keyFn, todo, index) ==
  IF todo = <<>> THEN index
  ELSE BuildIndexLoop(graph, keyFn, Tail(todo),
                      IndexKeysLoop(index, KeyFn(keyFn, graph.nodes[Head(todo)]), Head(todo)))

\* buildIndex(graph, keyFn): the Map from key to the list of node indices.
buildIndex(graph, keyFn) ==
  BuildIndexLoop(graph, keyFn, GraphNodeIndices(graph), EmptyFn)

\* queryIndex(searchIndex, key): searchIndex.index.get(key) ?? []
queryIndex(index, key) == IF key \in DOMAIN index THEN index[key] ELSE <<>>

RECURSIVE SetAddAll(_, _)
\* A JavaScript Set kept as the list of its members in insertion order.
SetAddAll(set, xs) ==
  IF xs = <<>> THEN set
  ELSE SetAddAll(IF Head(xs) \in Range(set) THEN set ELSE Append(set, Head(xs)), Tail(xs))

RECURSIVE UnionLoop(_, _, _)
UnionLoop(index, keys, resultSet) ==
  IF keys = <<>> THEN resultSet
  ELSE UnionLoop(index, Tail(keys), SetAddAll(resultSet, queryIndex(index, Head(keys))))

\* queryIndexUnion(searchIndex, keys)
queryIndexUnion(index, keys) == UnionLoop(index, keys, <<>>)

RECURSIVE IntersectLoopNoExit(_, _, _, _)
\* Variant of IntersectLoop without the early exit: every key is looked up.
IntersectLoopNoExit(index, keys, resultSet, lookups) ==
  IF keys = <<>> THEN [result |-> resultSet, lookups |-> lookups]
  ELSE LET currentResults == Range(queryIndex(index, Head(keys)))
           kept == SelectSeq(resultSet, LAMBDA i : i \in currentResults)
       IN IntersectLoopNoExit(index, Tail(keys), kept, Append(lookups, Head(keys)))

RECURSIVE IntersectLoop(_, _, _, _)
\* The loop of queryIndexIntersection over keys[1..]: the key is looked up,
\* members not in its results are deleted, and an empty set returns [] at
\* once.  `lookups` lists the keys queryIndex has been called with.
IntersectLoop(index, keys, resultSet, lookups) ==
  IF keys = <<>> THEN [result |-> resultSet, lookups |-> lookups]
  ELSE LET currentResults == Range(queryIndex(index, Head(keys)))
           kept == SelectSeq(resultSet, LAMBDA i : i \in currentResults)
           looked == Append(lookups, Head(keys))
       IN IF kept = <<>> THEN [result |-> <<>>, lookups |-> looked]
          ELSE IntersectLoop(index, Tail(keys), kept, looked)

\* The run of queryIndexIntersection(searchIndex, keys): its result and the
\* keys it looked up.
IntersectionRun(index, keys) ==
  IF Len(keys) = 0 THEN [result |-> <<>>, lookups |-> <<>>]
  ELSE LET firstResults == queryIndex(index, keys[1])
       IN IF Len(firstResults) = 0 THEN [result |-> <<>>, lookups |-> <<keys[1]>>]
          ELSE IntersectLoop(index, Tail(keys), SetAddAll(<<>>, firstResults), <<keys[1]>>)

\* queryIndexIntersection(searchIndex, keys)
queryIndexIntersection(index, keys) == IntersectionRun(index, keys).result

\* ------------------------------------------------------------------------
\* CorpusOps: statistics as a monoid, sequential and batched aggregation
\* ------------------------------------------------------------------------

\* Longest document list, largest batchSize and largest concurrency.
MaxDocs == 3

MaxBatchSize == 3

MaxConcurrency == 2

\* A JavaScript Set is kept as the sequence of its elements in insertion
\* order, a Map as the sequence of its [term, count] entries in insertion
\* order.

RECURSIVE SetFromSeq(_)
\* new Set(iterable): later repetitions of an element are dropped.
SetFromSeq(xs) ==
  IF xs = <<>> THEN <<>>
  ELSE LET front == SetFromSeq(SubSeq(xs, 1, Len(xs) - 1))
           last == xs[Len(xs)]
       IN IF \E k \in DOMAIN front : front[k] = last THEN front ELSE Append(front, last)

MapHas(m, term) == \E k \in DOMAIN m : m[k].term = term

\* m.get(term) ?? 0
MapGetOrZero(m, term) ==
  IF MapHas(m, term) THEN m[CHOOSE k \in DOMAIN m : m[k].term = term].count ELSE 0

\* m.set(term, count): an existing entry keeps its place.
MapSet(m, term, count) ==
  IF MapHas(m, term)
  THEN [k \in DOMAIN m |-> IF m[k].term = term THEN [term |-> term, count |-> count] ELSE m[k]]
  ELSE Append(m, [term |-> term, count |-> count])

\* Variant of MergeEntry that stores the incoming count instead of adding it.
MergeEntryOverwrite(result, entry) == MapSet(result, entry.term, entry.count)

\* The body of the forEach of mergeFrequencyMaps.
MergeEntry(result, entry) ==
  MapSet(result, entry.term, MapGetOrZero(result, entry.term) + entry.count)

RECURSIVE MergeLoop(_, _)
MergeLoop(result, m2) ==
  IF m2 = <<>> THEN result ELSE MergeLoop(MergeEntry(result, Head(m2)), Tail(m2))

\* mergeFrequencyMaps(m1, m2): a copy of m1 with every entry of m2 added in.
mergeFrequencyMaps(m1, m2) == MergeLoop(m1, m2)

\* emptyStatistics
emptyStatistics ==
  [documentCount |-> 0, totalWords |-> 0, totalSentences |-> 0, totalChars |-> 0,
   vocabulary |-> <<>>, termFrequency |-> <<>>, documentFrequency |-> <<>>]

\* combineStatistics(s1, s2)
combineStatistics(s1, s2) ==
  [documentCount |-> s1.documentCount + s2.documentCount,
   totalWords |-> s1.totalWords + s2.totalWords,
   totalSentences |-> s1.totalSentences + s2.totalSentences,
   totalChars |-> s1.totalChars + s2.totalChars,
   vocabulary |-> SetFromSeq(s1.vocabulary \o s2.vocabulary),
   termFrequency |-> mergeFrequencyMaps(s1.termFrequency, s2.termFrequency),
   documentFrequency |-> mergeFrequencyMaps(s1.documentFrequency, s2.documentFrequency)]

\* Variant of MergedArgumentAfter for a merge that writes into m1 itself
\* instead of a copy: the caller's map becomes the merged map.
MergedArgumentShared(m1, m2) == mergeFrequencyMaps(m1, m2)

\* The map passed as m1 once mergeFrequencyMaps has returned: the forEach
\* writes to result = new Map(m1), so m1 keeps its entries.
MergedArgumentAfter(m1, m2) == m1

\* The statistics passed as s1 once combineStatistics(s1, s2) has returned:
\* the counters are numbers, the vocabulary is read into a new Set, the maps
\* go through mergeFrequencyMaps.
StatisticsAfterCombine(s1, s2) ==
  [s1 EXCEPT !.termFrequency = MergedArgumentAfter(s1.termFrequency, s2.termFrequency),
             !.documentFrequency =
               MergedArgumentAfter(s1.documentFrequency, s2.documentFrequency)]

\* Variant of CountTerms that records a token's presence: every token of the
\* list gets the count 1.
CountTermsPresence(tf, tokens) ==
  LET vocabulary == SetFromSeq(tokens)
  IN [k \in DOMAIN vocabulary |-> [term |-> vocabulary[k], count |-> 1]]

RECURSIVE CountTerms(_, _)
\* tokens.forEach((token) => termFrequency.set(token, (get ?? 0) + 1))
CountTerms(tf, tokens) ==
  IF tokens = <<>> THEN tf
  ELSE CountTerms(MapSet(tf, Head(tokens), MapGetOrZero(tf, Head(tokens)) + 1), Tail(tokens))

\* documentStatistics(doc, tokens, sentences)
documentStatistics(doc, tokens, sentences) ==
  LET vocabulary == SetFromSeq(tokens)
  IN [documentCount |-> 1,
      totalWords |-> Len(tokens),
      totalSentences |-> sentences,
      totalChars |-> doc.chars,
      vocabulary |-> vocabulary,
      termFrequency |-> CountTerms(<<>>, tokens),
      documentFrequency |-> [k \in DOMAIN vocabulary |-> [term |-> vocabulary[k], count |-> 1]]]

\* A document with what the NLP service gives for its text: the stemmed,
\* stop-word-free tokens and the number of sentences.  The service is
\* deterministic.
Document(tokens) ==
  [tokens |-> tokens, sentences |-> IF tokens = <<>> THEN 0 ELSE 1, chars |-> 2 * Len(tokens)]

Documents ==
  {Document(<<>>), Document(<<"x">>), Document(<<"x", "y">>), Document(<<"y", "y">>)}

\* The per-document pipeline of both aggregations: sentencize, tokenize,
\* removeStopWords, stem, documentStatistics.
ExtractStatistics(doc) == documentStatistics(doc, doc.tokens, doc.sentences)

RECURSIVE Reduce(_, _)
\* array.reduce(combineStatistics, initial)
Reduce(initial, array) ==
  IF array = <<>> THEN initial
  ELSE Reduce(combineStatistics(initial, Head(array)), Tail(array))

RECURSIVE aggregateStatistics(_)
\* aggregateStatistics(documents): stats = combineStatistics(stats, docStats)
\* for each document in order, from emptyStatistics.
aggregateStatistics(documents) ==
  IF documents = <<>> THEN emptyStatistics
  ELSE combineStatistics(aggregateStatistics(SubSeq(documents, 1, Len(documents) - 1)),
                         ExtractStatistics(documents[Len(documents)]))

RECURSIVE chunksOf(_, _)
\* Array.chunksOf(documents, n), n >= 1
chunksOf(xs, n) ==
  IF xs = <<>> THEN <<>>
  ELSE IF Len(xs) <= n THEN <<xs>>
  ELSE <<SubSeq(xs, 1, n)>> \o chunksOf(SubSeq(xs, n + 1, Len(xs)), n)

\* Variant of CombineBatch that folds the batch from the running total.
CombineBatchFromTotal(stats, batchStats) ==
  combineStatistics(stats, Reduce(stats, batchStats))

\* The end of one turn of the batch loop of aggregateStatisticsParallel:
\* batchCombined = batchStats.reduce(combineStatistics, emptyStatistics);
\* stats = combineStatistics(stats, batchCombined).
CombineBatch(stats, batchStats) ==
  combineStatistics(stats, Reduce(emptyStatistics, batchStats))

\* A statistics value with its Set read as a set and its Maps as maps.
AsMap(m) == [t \in {m[k].term : k \in DOMAIN m} |-> MapGetOrZero(m, t)]

StatsValue(st) ==
  [documentCount |-> st.documentCount, totalWords |-> st.totalWords,
   totalSentences |-> st.totalSentences, totalChars |-> st.totalChars,
   vocabulary |-> Range(st.vocabulary),
   termFrequency |-> AsMap(st.termFrequency),
   documentFrequency |-> AsMap(st.documentFrequency)]

\* ------------------------------------------------------------------------
\* TF-IDF (CorpusOps): computeTF, computeIDF and the weights of computeTFIDF.
\* A JavaScript number is kept by what it is: zero, a finite value that is
\* not zero (with the quotient it came from), Infinity or NaN.
\* ------------------------------------------------------------------------

Zero == [kind |-> "zero"]

Infinite == [kind |-> "infinity"]

NotANumber == [kind |-> "nan"]

\* n / d for counts n, d >= 0, as IEEE division gives it.
Quotient(n, d) ==
  IF d = 0 THEN (IF n = 0 THEN NotANumber ELSE Infinite)
  ELSE IF n = 0 THEN Zero
  ELSE [kind |-> "finite", num |-> n, den |-> d]

\* Math.log(q) for a quotient q of counts: log(1) is 0, log(0) is -Infinity,
\* log(Infinity) is Infinity, log(NaN) is NaN.
MathLog(q) ==
  CASE q.kind = "nan" -> NotANumber
    [] q.kind = "infinity" -> Infinite
    [] q.kind = "zero" -> [kind |-> "infinity", sign |-> "-"]
    [] q.kind = "finite" ->
         IF q.num = q.den THEN Zero ELSE [kind |-> "finite", log |-> <<q.num, q.den>>]

\* a * b for numbers kept as above, a a positive finite value.
Times(a, b) ==
  CASE b.kind = "nan" -> NotANumber
    [] b.kind = "infinity" -> b
    [] b.kind = "zero" -> Zero
    [] b.kind = "finite" -> [kind |-> "finite", factors |-> <<a, b>>]

\* computeTF(tokens): the count of each token divided by the number of tokens;
\* an empty map for no tokens.
computeTF(tokens) ==
  IF Len(tokens) = 0 THEN <<>>
  ELSE LET counts == CountTerms(<<>>, tokens)
       IN [k \in DOMAIN counts |->
             [term |-> counts[k].term, count |-> Quotient(counts[k].count, Len(tokens))]]

\* The body of the forEach of computeIDF: idf.set(term, Math.log(totalDocs / docFreq))
IdfEntry(totalDocs, entry) ==
  [term |-> entry.term, count |-> MathLog(Quotient(totalDocs, entry.count))]

\* computeIDF(corpusStats): an empty map when documentCount is 0.
computeIDF(corpusStats) ==
  LET totalDocs == corpusStats.documentCount
  IN IF totalDocs = 0 THEN <<>>
     ELSE [k \in DOMAIN corpusStats.documentFrequency |->
             IdfEntry(totalDocs, corpusStats.documentFrequency[k])]

\* idf.get(term) ?? 0
IdfGetOrZero(idf, term) ==
  IF MapHas(idf, term) THEN idf[CHOOSE k \in DOMAIN idf : idf[k].term = term].count ELSE Zero

\* The per-document step of computeTFIDF: tfidf.set(term, tfScore * idfScore)
\* for every term of computeTF(stemmed).
TfidfVector(idf, tokens) ==
  LET tfMap == computeTF(tokens)
  IN [k \in DOMAIN tfMap |->
        [term |-> tfMap[k].term,
         count |-> Times(tfMap[k].count, IdfGetOrZero(idf, tfMap[k].term))]]

\* ------------------------------------------------------------------------
\* State
\* ------------------------------------------------------------------------

VARIABLES
  eg,     \* the EffectGraph the caller works on
  held,   \* the EffectGraph passed to the last addNode, as seen after the call
  pre,    \* the EffectGraph passed to the last addNode, as it was before the call
  dg,     \* the TextGraph (a DirectedGraph of TextNodes) the caller works on
  corpus, \* the inputs and the progress of a corpus operation
  res     \* outcome of the last operation

vars == <<eg, held, pre, dg, corpus, res>>

Idle == [op |-> "none"]

NoCorpus == [pc |-> "off"]

NodeInputs ==
  {makeNode(id, d, p) : id \in NodeIds, d \in Payloads, p \in NodeIds \cup {None}}

InitGraph ==
  /\ eg \in {empty} \cup {singleton(id, d) : id \in NodeIds, d \in Payloads}
  /\ held = eg
  /\ pre = eg
  /\ res = Idle

Init == InitGraph /\ dg = emptyTextGraph /\ corpus = NoCorpus

\* The operations that only read the graph (cata, map) are taken on the graph
\* as built so far and end a run: they change neither eg nor held, so a later
\* addNode would reach no graph that is not reached without them.
Building == res.op \in {"none", "addNode", "addEdge", "addChildren"}

\* graph = addNode(graph, node).  addNode has no failing path: it always
\* returns a graph.
AddNode ==
  \E node \in NodeInputs :
    /\ Building
    /\ size(eg) < MaxNodes
    /\ eg' = addNode(eg, node)
    /\ held' = ArgumentAfterCall(eg, eg')
    /\ pre' = eg
    /\ res' = [op |-> "addNode", node |-> node, from |-> "current", outcome |-> "ok"]
    /\ UNCHANGED <<dg, corpus>>

\* A second addNode from the version the caller still holds.
AddNodeFromHeld ==
  \E node \in NodeInputs :
    /\ res.op = "addNode"
    /\ size(held) < MaxNodes
    /\ eg' = addNode(held, node)
    /\ held' = ArgumentAfterCall(held, eg')
    /\ pre' = held
    /\ res' = [op |-> "addNode", node |-> node, from |-> "held", outcome |-> "ok"]
    /\ UNCHANGED <<dg, corpus>>

\* cata(graph, algebra)
Cata ==
  /\ Building
  /\ res' = [op |-> "cata", fold |-> cata(eg)]
  /\ UNCHANGED <<eg, held, pre, dg, corpus>>

\* map(graph, f)
Map ==
  \E f \in Fns :
    /\ Building
    /\ res' = [op |-> "map", f |-> f, result |-> map(eg, f)]
    /\ UNCHANGED <<eg, held, pre, dg, corpus>>

\* map(map(graph, f), g2) next to map(graph, x => g2(f(x)))
MapTwice ==
  \E f \in Fns, g2 \in Fns :
    /\ Building
    /\ res' = [op |-> "mapTwice", f |-> f, g2 |-> g2,
               nested |-> map(map(eg, f), g2),
               fused |-> map(eg, Compose(g2, f))]
    /\ UNCHANGED <<eg, held, pre, dg, corpus>>

\* collectTraversal(graph.graph, start, "topo") on the graph of an EffectGraph
Topo ==
  \E start \in {<<>>, GraphExternalsIncoming(eg.graph)} :
    /\ Building
    /\ res' = [op |-> "topo", start |-> start,
               walk |-> collectTraversal(eg.graph, start, "topo")]
    /\ UNCHANGED <<eg, held, pre, dg, corpus>>

Next == AddNode \/ AddNodeFromHeld \/ Cata \/ Map \/ MapTwice \/ Topo

Spec == Init /\ [][Next]_vars

\* ------------------------------------------------------------------------
\* EffectGraphs whose inner graph a caller has edited: the graph field is a
\* public Graph.DirectedGraph, so edges can be put in with Graph.addEdge.
\* ------------------------------------------------------------------------

\* Graph.mutate(g.graph, (m) => Graph.addEdge(m, source, target, ...)) on the
\* graph of an EffectGraph.
InjectEdge ==
  \E source \in DOMAIN eg.graph.nodes, target \in DOMAIN eg.graph.nodes :
    /\ Cardinality(DOMAIN eg.graph.edges) < MaxEdges
    /\ eg' = [eg EXCEPT !.graph = GraphAddEdge(eg.graph, source, target)]
    /\ held' = eg'
    /\ pre' = eg'
    /\ res' = [op |-> "addEdge"]
    /\ UNCHANGED <<dg, corpus>>

NextExt == AddNode \/ InjectEdge

SpecExt == Init /\ [][NextExt]_vars

\* ------------------------------------------------------------------------
\* TextGraph runs
\* ------------------------------------------------------------------------

TextTypes == {"sentence", "token"}

ChildNodes == {TextNode("w", t) : t \in TextTypes}

InitText ==
  /\ eg = empty
  /\ held = empty
  /\ pre = empty
  /\ dg \in {emptyTextGraph, singletonTextGraph("w", "document")}
  /\ corpus = NoCorpus
  /\ res = Idle

\* graph = addChildren(graph, parentIndex, children, relation); a throw leaves
\* the caller with the graph it had.
AddChildren ==
  \E parentIndex \in 0..dg.nextNodeIndex, children \in SeqsUpTo(ChildNodes, MaxChildren) :
    /\ Building
    /\ Cardinality(DOMAIN dg.nodes) + Len(children) <= MaxTextNodes
    /\ Cardinality(DOMAIN dg.edges) + Len(children) <= MaxEdges
    /\ dg' = addChildren(dg, parentIndex, children).graph
    /\ res' = [op |-> "addChildren", parentIndex |-> parentIndex, children |-> children,
               outcome |-> addChildren(dg, parentIndex, children).outcome, before |-> dg]
    /\ UNCHANGED <<eg, held, pre, corpus>>

\* Graph.mutate(graph, (m) => Graph.addEdge(m, source, target, ...)) on a
\* TextGraph, as fromDocument links its nodes.
AddEdge ==
  \E source \in DOMAIN dg.nodes, target \in DOMAIN dg.nodes :
    /\ Building
    /\ Cardinality(DOMAIN dg.edges) < MaxEdges
    /\ dg' = GraphAddEdge(dg, source, target)
    /\ res' = [op |-> "addEdge"]
    /\ UNCHANGED <<eg, held, pre, corpus>>

\* collectTraversal(graph, start, "dfs" | "bfs")
Traverse ==
  \E order \in {"dfs", "bfs"}, start \in SeqsUpTo(0..dg.nextNodeIndex, MaxStart) :
    /\ Building
    /\ res' = [op |-> "traverse", order |-> order, start |-> start,
               walk |-> collectTraversal(dg, start, order)]
    /\ UNCHANGED <<eg, held, pre, dg, corpus>>

\* collectTraversal(graph, start, "topo")
TraverseTopo ==
  \E start \in SeqsUpTo(0..dg.nextNodeIndex, MaxStart) :
    /\ Building
    /\ res' = [op |-> "topo", start |-> start,
               walk |-> collectTraversal(dg, start, "topo")]
    /\ UNCHANGED <<eg, held, pre, dg, corpus>>

\* index = buildIndex(graph, keyFn), then the three queries for one key list
Query ==
  \E keyFn \in KeyFns, keys \in SeqsUpTo(Keys, MaxKeys) :
    /\ Building
    /\ LET index == buildIndex(dg, keyFn)
       IN res' = [op |-> "query", keyFn |-> keyFn, keys |-> keys,
                  single |-> [k \in Range(keys) |-> queryIndex(index, k)],
                  union |-> queryIndexUnion(index, keys),
                  intersection |-> queryIndexIntersection(index, keys),
                  lookups |-> IntersectionRun(index, keys).lookups]
    /\ UNCHANGED <<eg, held, pre, dg, corpus>>

\* filtered = filterNodes(graph, predicate); the caller keeps graph
Filter ==
  \E predicate \in Predicates :
    /\ Building
    /\ res' = [op |-> "filter", predicate |-> predicate, before |-> dg,
               result |-> filterNodes(dg, predicate)]
    /\ UNCHANGED <<eg, held, pre, dg, corpus>>

NextText == AddChildren \/ AddEdge \/ Traverse \/ TraverseTopo \/ Filter

SpecText == InitText /\ [][NextText]_vars

\* Index runs: a TextGraph is grown with addChildren, then indexed and
\* queried.  The index is built from the nodes alone.
NextIndex == AddChildren \/ Query

SpecIndex == InitText /\ [][NextIndex]_vars

\* ------------------------------------------------------------------------
\* Tokenizer runs: a TextGraph is grown with addChildren and edges, then
\* tokenizeNodes is applied to it and to its own output.
\* ------------------------------------------------------------------------

\* once = tokenizeNodes(graph); twice = tokenizeNodes(once), same service
TokenizeNodes ==
  \E tokenizer \in Tokenizers :
    /\ Building
    /\ Cardinality(DOMAIN tokenizeNodes(dg, tokenizer).nodes) <= MaxTokenized
    /\ dg' = tokenizeNodes(dg, tokenizer)
    /\ res' = [op |-> "tokenize", tokenizer |-> tokenizer, before |-> dg,
               twice |-> tokenizeNodes(tokenizeNodes(dg, tokenizer), tokenizer)]
    /\ UNCHANGED <<eg, held, pre, corpus>>

NextTokenize == AddChildren \/ AddEdge \/ TokenizeNodes

SpecTokenize == InitText /\ [][NextTokenize]_vars

\* ------------------------------------------------------------------------
\* Monoid runs: combineStatistics applied to three statistics values
\* ------------------------------------------------------------------------

DocumentStats == {ExtractStatistics(d) : d \in Documents}

StatsPool ==
  {emptyStatistics} \cup DocumentStats
    \cup {combineStatistics(s1, s2) : s1 \in DocumentStats, s2 \in DocumentStats}

InitMonoid ==
  /\ eg = empty
  /\ held = empty
  /\ pre = empty
  /\ dg = emptyTextGraph
  /\ corpus \in [a : StatsPool, b : StatsPool, c : StatsPool]
  /\ res = Idle

Combine ==
  /\ res.op = "none"
  /\ res' = [op |-> "combine",
             ab |-> combineStatistics(corpus.a, corpus.b),
             ba |-> combineStatistics(corpus.b, corpus.a),
             ab_c |-> combineStatistics(combineStatistics(corpus.a, corpus.b), corpus.c),
             a_bc |-> combineStatistics(corpus.a, combineStatistics(corpus.b, corpus.c)),
             ae |-> combineStatistics(corpus.a, emptyStatistics),
             ea |-> combineStatistics(emptyStatistics, corpus.a),
             aAfter |-> StatisticsAfterCombine(corpus.a, corpus.b),
             emptyAfter |-> StatisticsAfterCombine(emptyStatistics, corpus.a),
             eb |-> combineStatistics(StatisticsAfterCombine(emptyStatistics, corpus.a),
                                      corpus.b)]
  /\ UNCHANGED <<eg, held, pre, dg, corpus>>

NextMonoid == Combine

SpecMonoid == InitMonoid /\ [][NextMonoid]_vars

\* ------------------------------------------------------------------------
\* Aggregation runs: aggregateStatisticsParallel(documents, config), one
\* step per start and per end of a document's extraction
\* ------------------------------------------------------------------------

\* Variant of CanStart without the limit on running effects.
CanStartUnbounded(c) == c.started < Len(c.batches[c.batch])

\* Effect.all(effects, { concurrency }) starts the next effect of the batch
\* only while fewer than `concurrency` of them are running.
CanStart(c) ==
  /\ c.started < Len(c.batches[c.batch])
  /\ Cardinality(c.inflight) < c.concurrency

\* Variant of Interrupt for a run that takes note of the interruption and
\* goes on.
InterruptIgnored(c) ==
  [c EXCEPT !.cancelled = TRUE, !.startedAtCancel = c.startedDocs]

\* The interruption of the Effect.gen of aggregateStatisticsParallel: the
\* effects of the batch that are running are interrupted, Effect.all starts
\* no other, and the generator is left at its yield*, so the local `stats`
\* is dropped and nothing is returned.
Interrupt(c) ==
  [c EXCEPT !.pc = "interrupted", !.inflight = {},
            !.cancelled = TRUE, !.startedAtCancel = c.startedDocs]

InitCorpus ==
  /\ eg = empty
  /\ held = empty
  /\ pre = empty
  /\ dg = emptyTextGraph
  /\ \E documents \in SeqsUpTo(Documents, MaxDocs),
        batchSize \in 1..MaxBatchSize, concurrency \in 1..MaxConcurrency :
       corpus = [pc |-> "start", documents |-> documents,
                 batchSize |-> batchSize, concurrency |-> concurrency,
                 batches |-> <<>>, batch |-> 0, started |-> 0, inflight |-> {},
                 batchStats |-> EmptyFn, stats |-> emptyStatistics,
                 startedDocs |-> {}, finishedDocs |-> {},
                 cancelled |-> FALSE, startedAtCancel |-> {}]
  /\ res = Idle

\* const batches = Array.chunksOf(documents, config.batchSize); let stats = emptyStatistics
AggregateBegin ==
  /\ corpus.pc = "start"
  /\ LET batches == chunksOf(corpus.documents, corpus.batchSize)
     IN corpus' = [corpus EXCEPT !.batches = batches,
                                 !.batch = 1,
                                 !.stats = emptyStatistics,
                                 !.pc = IF batches = <<>> THEN "done" ELSE "batch"]
  /\ res' = IF corpus'.pc = "done"
            THEN [op |-> "aggregate", stats |-> emptyStatistics] ELSE res
  /\ UNCHANGED <<eg, held, pre, dg>>

\* Effect.all(..., { concurrency }) starts the next document of the batch
\* while fewer than `concurrency` extractions are running.
ExtractStart ==
  /\ corpus.pc = "batch"
  /\ CanStart(corpus)
  /\ corpus' = [corpus EXCEPT !.started = corpus.started + 1,
                              !.inflight = corpus.inflight \cup {corpus.started + 1},
                              !.startedDocs = corpus.startedDocs
                                                \cup {<<corpus.batch, corpus.started + 1>>}]
  /\ UNCHANGED <<eg, held, pre, dg, res>>

\* A running extraction ends; its statistics go to its own place in the
\* result array of Effect.all.
ExtractEnd ==
  \E k \in corpus.inflight :
    /\ corpus.pc = "batch"
    /\ corpus' = [corpus EXCEPT
                    !.inflight = corpus.inflight \ {k},
                    !.finishedDocs = corpus.finishedDocs \cup {<<corpus.batch, k>>},
                    !.batchStats = (k :> ExtractStatistics(corpus.batches[corpus.batch][k]))
                                     @@ corpus.batchStats]
    /\ UNCHANGED <<eg, held, pre, dg, res>>

\* Effect.all has every result: the batch is folded into the running total
\* and the loop goes to the next batch, or returns stats.
BatchEnd ==
  /\ corpus.pc = "batch"
  /\ corpus.started = Len(corpus.batches[corpus.batch])
  /\ corpus.inflight = {}
  /\ LET batchStats == [k \in 1..corpus.started |-> corpus.batchStats[k]]
         stats == CombineBatch(corpus.stats, batchStats)
         last == corpus.batch = Len(corpus.batches)
     IN /\ corpus' = [corpus EXCEPT !.stats = stats,
                                    !.batch = corpus.batch + 1,
                                    !.started = 0,
                                    !.batchStats = EmptyFn,
                                    !.pc = IF last THEN "done" ELSE "batch"]
        /\ res' = IF last THEN [op |-> "aggregate", stats |-> stats] ELSE res
  /\ UNCHANGED <<eg, held, pre, dg>>

\* The fiber running the aggregation is interrupted from outside
\* (Fiber.interrupt, a timeout, the end of an enclosing scope).
Cancel ==
  /\ corpus.pc \in {"start", "batch"}
  /\ corpus' = Interrupt(corpus)
  /\ res' = [op |-> "interrupted"]
  /\ UNCHANGED <<eg, held, pre, dg>>

NextCorpus == AggregateBegin \/ ExtractStart \/ ExtractEnd \/ BatchEnd \/ Cancel

SpecCorpus == InitCorpus /\ [][NextCorpus]_vars

\* ------------------------------------------------------------------------
\* Properties
\* ------------------------------------------------------------------------

\* ------------------------------------------------------------------------
\* Stores with a stale id map: EffectGraph is a plain record of the graph and
\* the two maps, so a value can reach cata whose nodeIdToIndex lacks the id
\* of a node of the graph.  Node ids are the fresh ids of NodeId.generate().
\* ------------------------------------------------------------------------

StoreIds == {"a", "b", "c"}

InitStore ==
  /\ eg = empty
  /\ held = empty
  /\ pre = empty
  /\ dg = emptyTextGraph
  /\ corpus = NoCorpus
  /\ res = Idle

\* graph = addNode(graph, makeNode(data, parentId)) with a generated id and
\* the id of a node of the graph (or none) as parent.
AddFreshNode ==
  \E id \in StoreIds, d \in Payloads :
    \E p \in {eg.graph.nodes[i].id : i \in DOMAIN eg.graph.nodes} \cup {None} :
      /\ res.op \in {"none", "addNode", "dropId"}
      /\ size(eg) < MaxNodes
      /\ \A i \in DOMAIN eg.graph.nodes : eg.graph.nodes[i].id # id
      /\ eg' = addNode(eg, makeNode(id, d, p))
      /\ held' = ArgumentAfterCall(eg, eg')
      /\ pre' = eg
      /\ res' = [op |-> "addNode", node |-> makeNode(id, d, p), from |-> "current",
                 outcome |-> "ok"]
      /\ UNCHANGED <<dg, corpus>>

\* { ...graph, nodeIdToIndex: HashMap.remove(graph.nodeIdToIndex, id) }
DropId ==
  \E id \in DOMAIN eg.nodeIdToIndex :
    /\ res.op \in {"none", "addNode", "dropId"}
    /\ eg' = [eg EXCEPT !.nodeIdToIndex =
                [k \in DOMAIN eg.nodeIdToIndex \ {id} |-> eg.nodeIdToIndex[k]]]
    /\ held' = eg'
    /\ pre' = eg'
    /\ res' = [op |-> "dropId", id |-> id]
    /\ UNCHANGED <<dg, corpus>>

\* cata(graph, algebra) on such a store
CataStore ==
  /\ res.op \in {"none", "addNode", "dropId"}
  /\ res' = [op |-> "cata", fold |-> cata(eg)]
  /\ UNCHANGED <<eg, held, pre, dg, corpus>>

NextStore == AddFreshNode \/ DropId \/ CataStore

SpecStore == InitStore /\ [][NextStore]_vars

\* ------------------------------------------------------------------------
\* TF-IDF runs: computeIDF on a CorpusStatistics value, then the weights of
\* one document.  computeIDF is exported and takes any CorpusStatistics.
\* ------------------------------------------------------------------------

\* Document frequencies a statistics value may hold for a term; -1 stands
\* for a term without entry.
FrequencyChoices == {-1} \cup (0..MaxDocs)

\* The documentFrequency map with the chosen entries for "x" and "y".
FrequencyMap(cx, cy) ==
  (IF cx = -1 THEN <<>> ELSE <<[term |-> "x", count |-> cx]>>)
    \o (IF cy = -1 THEN <<>> ELSE <<[term |-> "y", count |-> cy]>>)

InitTfidf ==
  /\ eg = empty
  /\ held = empty
  /\ pre = empty
  /\ dg = emptyTextGraph
  /\ \E documentCount \in 0..MaxDocs, cx \in FrequencyChoices, cy \in FrequencyChoices,
        doc \in Documents :
       corpus = [pc |-> "stats", doc |-> doc,
                 stats |-> [emptyStatistics EXCEPT
                              !.documentCount = documentCount,
                              !.documentFrequency = FrequencyMap(cx, cy)],
                 idf |-> <<>>]
  /\ res = Idle

\* const idf = computeIDF(corpusStats)
ComputeIdf ==
  /\ corpus.pc = "stats"
  /\ corpus' = [corpus EXCEPT !.pc = "idf", !.idf = computeIDF(corpus.stats)]
  /\ res' = [op |-> "idf", idf |-> computeIDF(corpus.stats)]
  /\ UNCHANGED <<eg, held, pre, dg>>

\* The TF-IDF vector of one document against idf
ComputeVector ==
  /\ corpus.pc = "idf"
  /\ corpus' = [corpus EXCEPT !.pc = "done"]
  /\ res' = [op |-> "tfidf", vector |-> TfidfVector(corpus.idf, corpus.doc.tokens)]
  /\ UNCHANGED <<eg, held, pre, dg>>

NextTfidf == ComputeIdf \/ ComputeVector

SpecTfidf == InitTfidf /\ [][NextTfidf]_vars

\* ------------------------------------------------------------------------
\* Processing runs: processParallel(documents, processDoc, config), one step
\* per start and per end of a document's processDoc
\* ------------------------------------------------------------------------

\* Variant of ProcessedAfter that counts the last batch alone.
ProcessedOfBatch(processed, batch) == Len(batch)

\* processed += batch.length
ProcessedAfter(processed, batch) == processed + Len(batch)

\* The Progress value handed to config.reportProgress.  Math.floor of the
\* floating-point quotient equals the integer quotient for the totals used.
Progress(processed, total) ==
  [processed |-> processed, total |-> total,
   percentage |-> (processed * 100) \div total]

\* The ProcessedDocument built from a document and its features.
ProcessedDocument(doc) == [id |-> doc, features |-> "features"]

\* Variant of SettleProcessDoc in which a failed processDoc is dropped and
\* the batch goes on without a result for it.
SettleProcessDocSkipFailed(c, k) ==
  LET doc == c.batches[c.batch][k]
  IN IF doc \in c.fails
     THEN [c EXCEPT !.inflight = c.inflight \ {k}]
     ELSE [c EXCEPT !.inflight = c.inflight \ {k},
                    !.batchResults = (k :> ProcessedDocument(doc)) @@ c.batchResults]

\* The k-th effect of the batch ends.  A failure fails Effect.all, which
\* interrupts the effects still running and starts no other; the failure
\* leaves the generator at the yield*, so processParallel fails with it.
SettleProcessDoc(c, k) ==
  LET doc == c.batches[c.batch][k]
  IN IF doc \in c.fails
     THEN [c EXCEPT !.inflight = {}, !.pc = "failed", !.error = doc]
     ELSE [c EXCEPT !.inflight = c.inflight \ {k},
                    !.batchResults = (k :> ProcessedDocument(doc)) @@ c.batchResults]

InitProcess ==
  /\ eg = empty
  /\ held = empty
  /\ pre = empty
  /\ dg = emptyTextGraph
  /\ \E n \in 0..MaxDocs, batchSize \in 1..MaxBatchSize,
        concurrency \in 1..MaxConcurrency, withProgress \in BOOLEAN :
       \E fails \in SUBSET (1..n) :
         corpus = [pc |-> "start", documents |-> [i \in 1..n |-> i], fails |-> fails,
                   batchSize |-> batchSize, concurrency |-> concurrency,
                   withProgress |-> withProgress,
                   batches |-> <<>>, batch |-> 0, started |-> 0, inflight |-> {},
                   batchResults |-> EmptyFn, results |-> <<>>, processed |-> 0,
                   reports |-> <<>>, startedDocs |-> {}, error |-> 0]
  /\ res = Idle

\* const results = []; let processed = 0; const batches = Array.chunksOf(...)
ProcessBegin ==
  /\ corpus.pc = "start"
  /\ LET batches == chunksOf(corpus.documents, corpus.batchSize)
     IN corpus' = [corpus EXCEPT !.batches = batches,
                                 !.batch = 1,
                                 !.pc = IF batches = <<>> THEN "done" ELSE "batch"]
  /\ res' = IF corpus'.pc = "done"
            THEN [op |-> "process", outcome |-> "ok", results |-> <<>>] ELSE res
  /\ UNCHANGED <<eg, held, pre, dg>>

\* Effect.all(..., { concurrency }) starts processDoc for the next document
\* of the batch while fewer than `concurrency` effects are running.
ProcessDocStart ==
  /\ corpus.pc = "batch"
  /\ corpus.started < Len(corpus.batches[corpus.batch])
  /\ Cardinality(corpus.inflight) < corpus.concurrency
  /\ corpus' = [corpus EXCEPT
                  !.started = corpus.started + 1,
                  !.inflight = corpus.inflight \cup {corpus.started + 1},
                  !.startedDocs = corpus.startedDocs
                                    \cup {corpus.batches[corpus.batch][corpus.started + 1]}]
  /\ UNCHANGED <<eg, held, pre, dg, res>>

\* A running processDoc ends, with features or with its error.
ProcessDocEnd ==
  \E k \in corpus.inflight :
    /\ corpus.pc = "batch"
    /\ corpus' = SettleProcessDoc(corpus, k)
    /\ res' = IF corpus'.pc = "failed"
              THEN [op |-> "process", outcome |-> "fail", error |-> corpus'.error]
              ELSE res
    /\ UNCHANGED <<eg, held, pre, dg>>

\* Effect.all is through: results.push(...batchResults), processed += batch.length,
\* the progress report when one is configured, then the next batch or the
\* return of results.
ProcessBatchEnd ==
  /\ corpus.pc = "batch"
  /\ corpus.started = Len(corpus.batches[corpus.batch])
  /\ corpus.inflight = {}
  /\ LET batch == corpus.batches[corpus.batch]
         batchResults == [j \in 1..Cardinality(DOMAIN corpus.batchResults) |->
                            corpus.batchResults[SortedSeq(DOMAIN corpus.batchResults)[j]]]
         results == corpus.results \o batchResults
         processed == ProcessedAfter(corpus.processed, batch)
         total == Len(corpus.documents)
         last == corpus.batch = Len(corpus.batches)
     IN /\ corpus' = [corpus EXCEPT
                        !.results = results,
                        !.processed = processed,
                        !.reports = IF corpus.withProgress
                                    THEN Append(corpus.reports,
                                                [batch |-> corpus.batch,
                                                 progress |-> Progress(processed, total)])
                                    ELSE corpus.reports,
                        !.batch = corpus.batch + 1,
                        !.started = 0,
                        !.batchResults = EmptyFn,
                        !.pc = IF last THEN "done" ELSE "batch"]
        /\ res' = IF last THEN [op |-> "process", outcome |-> "ok", results |-> results]
                  ELSE res
  /\ UNCHANGED <<eg, held, pre, dg>>

NextProcess == ProcessBegin \/ ProcessDocStart \/ ProcessDocEnd \/ ProcessBatchEnd

SpecProcess == InitProcess /\ [][NextProcess]_vars

NodesOf(graph) == DOMAIN graph.graph.nodes

EdgeCount(graph) == Cardinality(DOMAIN graph.graph.edges)

\* C1: after every addNode of a run that starts from empty() or singleton(),
\* isAcyclic holds on the graph.
C1_AcyclicAfterAddNode == GraphIsAcyclic(eg.graph)

\* A three-node graph with two parent -> child edges has been built by addNode.
C1_Witness == res.op = "addNode" /\ size(eg) = 3 /\ EdgeCount(eg) = 2

\* C2: an insertion (addNode, addChildren) whose resulting graph would not be
\* acyclic fails with a cycle error and leaves the graph passed in unchanged,
\* and no insertion returns a cyclic graph.
C2_CyclicInsertionRejected ==
  /\ res.op = "addNode" =>
       /\ ~GraphIsAcyclic(AddNodeGraph(pre, res.node)) =>
            res.outcome = "CycleError" /\ eg = pre
       /\ res.outcome = "ok" => GraphIsAcyclic(eg.graph)
  /\ res.op = "addChildren" =>
       /\ ~GraphIsAcyclic(AddChildrenLoop(res.before, res.parentIndex, res.children)) =>
            res.outcome # "ok" /\ dg = res.before
       /\ res.outcome = "ok" => GraphIsAcyclic(dg)

\* C3: every node has depth 0 exactly when it has no parentId; otherwise the
\* node its parentId names is in the graph and its depth is that node's
\* depth plus one.
C3_DepthInvariant ==
  \A i \in NodesOf(eg) :
    LET n == eg.graph.nodes[i]
    IN /\ (n.depth = 0) <=> (n.parentId = None)
       /\ n.parentId # None =>
            /\ getNode(eg, n.parentId) # NoNode
            /\ n.depth = getNode(eg, n.parentId).depth + 1

\* C6: one cata applies the algebra exactly once to each node of the graph,
\* and to a node only after it has been applied to all of the node's children.
C6_CataOncePerNode ==
  res.op = "cata" =>
    LET log == res.fold.log
    IN /\ res.fold.outcome = "ok"
       /\ Len(log) = size(eg)
       /\ \A i \in NodesOf(eg) : Cardinality({k \in DOMAIN log : log[k].index = i}) = 1
       /\ \A k \in DOMAIN log :
            \A c \in Range(GraphNeighbors(eg.graph, log[k].index)) :
              \E j \in 1..(k - 1) : log[j].index = c

C8_MapIdentity ==
  (res.op = "map" /\ res.f = Identity) =>
    /\ res.result.graph.nodes = eg.graph.nodes
    /\ res.result.graph.edges = eg.graph.edges
    /\ EdgeIds(res.result.graph) = EdgeIds(eg.graph)

\* identity has been mapped over a chain root -> child -> grandchild.
C8_Witness ==
  /\ res.op = "map" /\ res.f = Identity
  /\ \E i \in NodesOf(eg) : eg.graph.nodes[i].depth = 2

\* C9: map(map(g, f), g2) and map(g, x => g2(f(x))) are the same graph: ids,
\* edges, depths and data agree at every node.
C9_MapComposition ==
  res.op = "mapTwice" =>
    /\ res.nested.graph = res.fused.graph
    /\ res.nested.nodeIdToIndex = res.fused.nodeIdToIndex
    /\ res.nested.indexToNodeId = res.fused.indexToNodeId

\* Two maps that both change payloads have been applied to a graph with edges.
C9_Witness ==
  /\ res.op = "mapTwice" /\ res.f = Swap /\ res.g2 = ConstOne
  /\ EdgeCount(eg) >= 1
  /\ \E i \in NodesOf(eg) : res.fused.graph.nodes[i].data # eg.graph.nodes[i].data

\* C10: a dfs or bfs walk from a start list yields every node reachable from
\* the start nodes exactly once, and no other node.
C10_WalkVisitsReachableOnce ==
  (res.op = "traverse" /\ res.walk.outcome = "ok") =>
    /\ \A j, k \in DOMAIN res.walk.visited : res.walk.visited[j] = res.walk.visited[k] => j = k
    /\ Range(res.walk.visited) = ReachFrom(dg, Range(res.start))

\* A walk from one start node has visited a node that two paths lead to.
C10_Witness ==
  /\ res.op = "traverse" /\ res.walk.outcome = "ok" /\ Len(res.start) = 1
  /\ Len(res.walk.visited) = 3
  /\ \E t \in DOMAIN dg.nodes :
       Cardinality({e \in DOMAIN dg.edges : dg.edges[e].target = t}) = 2

\* C4: whatever the batchSize, the concurrency and the order in which the
\* extractions of a batch end, the parallel aggregation returns the
\* statistics the sequential aggregateStatistics returns for the documents:
\* equal counters, equal vocabulary as a set, equal frequency maps as maps.
C4_ParallelEqualsSequential ==
  res.op = "aggregate" =>
    StatsValue(res.stats) = StatsValue(aggregateStatistics(corpus.documents))

\* Three documents went through two batches, the extractions of the first
\* batch ran concurrently, and the result counts a term of two documents.
C4_Witness ==
  /\ res.op = "aggregate" /\ corpus.pc = "done"
  /\ Len(corpus.documents) = 3 /\ corpus.batchSize = 2 /\ corpus.concurrency = 2
  /\ \E t \in DOMAIN StatsValue(res.stats).documentFrequency :
       StatsValue(res.stats).documentFrequency[t] >= 2

\* C5: combineStatistics is associative and commutative and has
\* emptyStatistics as identity, on statistics read as values (counters,
\* vocabulary as a set, frequency maps as maps).
C5_CommutativeMonoid ==
  res.op = "combine" =>
    /\ StatsValue(res.ab_c) = StatsValue(res.a_bc)
    /\ StatsValue(res.ab) = StatsValue(res.ba)
    /\ StatsValue(res.ae) = StatsValue(corpus.a)
    /\ StatsValue(res.ea) = StatsValue(corpus.a)

\* Two statistics sharing a term, held in different insertion orders, have
\* been combined.
C5_Witness ==
  /\ res.op = "combine"
  /\ res.ab # res.ba
  /\ \E t \in DOMAIN StatsValue(corpus.a).termFrequency :
       t \in DOMAIN StatsValue(corpus.b).termFrequency

\* ------------------------------------------------------------------------
\* Topological traversal
\* ------------------------------------------------------------------------

\* Position of node n in the sequence of visited nodes (0 when absent).
PosIn(visited, n) ==
  IF \E k \in DOMAIN visited : visited[k] = n
  THEN CHOOSE k \in DOMAIN visited : visited[k] = n
  ELSE 0

\* C11: a traversal in topological order of a graph built by addNode raises
\* no error, yields every node exactly once, and yields every node before
\* each node reachable from it along parent -> child edges (each parent
\* strictly before all of its descendants).
C11_TopoParentsFirst ==
  res.op = "topo" =>
    LET visited == res.walk.visited
    IN /\ res.walk.outcome = "ok"
       /\ Len(visited) = size(eg)
       /\ Range(visited) = NodesOf(eg)
       /\ \A u \in NodesOf(eg) :
            \A v \in ReachFrom(eg.graph, Range(GraphNeighbors(eg.graph, u))) :
              PosIn(visited, u) < PosIn(visited, v)

\* A topological traversal of a graph with a grandchild and a second branch.
C11_Witness ==
  /\ res.op = "topo"
  /\ size(eg) = 3
  /\ EdgeCount(eg) = 2
  /\ \E i \in NodesOf(eg) : eg.graph.nodes[i].depth = 2
  /\ Len(res.walk.visited) = 3

\* ------------------------------------------------------------------------
\* Search index
\* ------------------------------------------------------------------------

\* The nodes of the TextGraph for which keyFn emitted key.
Emitters(keyFn, key) ==
  {i \in DOMAIN dg.nodes : key \in Range(KeyFn(keyFn, dg.nodes[i]))}

NoRepeats(xs) == \A i, j \in DOMAIN xs : xs[i] = xs[j] => i = j

\* C12: for an index built by buildIndex and a non-empty list of keys,
\* queryIndexIntersection returns exactly the nodes that emitted every listed
\* key, queryIndexUnion exactly the nodes that emitted at least one of them
\* (each node once), queryIndex the nodes that emitted the key, and a key no
\* node emitted gives the empty list.
C12_IndexQueries ==
  (res.op = "query" /\ res.keys # <<>>) =>
    /\ Range(res.intersection) =
         {i \in DOMAIN dg.nodes : \A k \in Range(res.keys) : i \in Emitters(res.keyFn, k)}
    /\ Range(res.union) =
         {i \in DOMAIN dg.nodes : \E k \in Range(res.keys) : i \in Emitters(res.keyFn, k)}
    /\ NoRepeats(res.intersection)
    /\ NoRepeats(res.union)
    /\ \A k \in Range(res.keys) :
         /\ Range(res.single[k]) = Emitters(res.keyFn, k)
         /\ Emitters(res.keyFn, k) = {} => res.single[k] = <<>>

\* Two keys with different, overlapping sets of emitters: the intersection
\* is smaller than the union and not empty.
C12_Witness ==
  /\ res.op = "query"
  /\ Len(res.keys) = 2
  /\ Len(res.intersection) >= 1
  /\ Len(res.union) > Len(res.intersection)
  /\ Cardinality(DOMAIN dg.nodes) = 3

\* ------------------------------------------------------------------------
\* processParallel
\* ------------------------------------------------------------------------

RECURSIVE SumLen(_)
\* Number of documents in a list of batches.
SumLen(batches) ==
  IF batches = <<>> THEN 0 ELSE Len(Head(batches)) + SumLen(Tail(batches))

\* C13: the progress callback of processParallel is invoked at most once per
\* batch, once after each completed batch and in batch order, never with
\* processed > total, with processed equal to the number of documents of all
\* batches completed so far; the reported values strictly increase and the
\* last call of a completed run reports processed == total.
C13_ProgressPerBatch ==
  corpus.pc \in {"batch", "done", "failed"} =>
    LET reports == corpus.reports
        total == Len(corpus.documents)
        completed == IF corpus.pc = "done" THEN Len(corpus.batches) ELSE corpus.batch - 1
    IN /\ Len(reports) = IF corpus.withProgress THEN completed ELSE 0
       /\ \A k \in DOMAIN reports :
            /\ reports[k].batch = k
            /\ reports[k].progress.processed <= total
            /\ reports[k].progress.total = total
            /\ reports[k].progress.processed = SumLen(SubSeq(corpus.batches, 1, k))
            /\ k > 1 => reports[k - 1].progress.processed < reports[k].progress.processed
       /\ (corpus.pc = "done" /\ reports # <<>>) =>
            reports[Len(reports)].progress.processed = total

\* A completed run of three batches with progress reports.
C13_Witness ==
  /\ corpus.pc = "done"
  /\ res.op = "process"
  /\ corpus.withProgress
  /\ Len(corpus.batches) = 3
  /\ Len(corpus.reports) = 3

\* C14: when processDoc fails for a document, processParallel fails with
\* that error: a run over documents one of which fails never returns a
\* result, and at the failure no document of a later batch has been started
\* and no progress has been reported for the failing batch.
C14_FailurePropagates ==
  /\ (res.op = "process" /\ res.outcome = "ok") => corpus.fails = {}
  /\ (res.op = "process" /\ res.outcome = "fail") =>
       /\ corpus.pc = "failed"
       /\ res.error \in corpus.fails
       /\ res.error \in Range(corpus.batches[corpus.batch])
       /\ "results" \notin DOMAIN res
       /\ corpus.startedDocs \subseteq
            UNION {Range(corpus.batches[b]) : b \in 1..corpus.batch}
       /\ \A k \in DOMAIN corpus.reports : corpus.reports[k].batch < corpus.batch
  /\ corpus.pc = "done" => corpus.fails = {}

\* A failure in the second of three batches, after the progress report for
\* the first.
C14_Witness ==
  /\ res.op = "process"
  /\ res.outcome = "fail"
  /\ corpus.batch = 2
  /\ Len(corpus.batches) = 3
  /\ Len(corpus.reports) = 1

\* ------------------------------------------------------------------------
\* cata on a store whose id map lacks a node
\* ------------------------------------------------------------------------

\* The node at index i cannot be resolved by its id.
Unresolved(i) == getNode(eg, eg.graph.nodes[i].id) = NoNode

\* C15: cata fails with the node-not-found error whenever a child referenced
\* by an edge of the graph cannot be resolved through the id map, and the
\* algebra is never applied to a children list shorter than the node's list
\* of children in the graph; a fold that returns has resolved every node.
C15_CataMissingChild ==
  res.op = "cata" =>
    /\ (\E e \in DOMAIN eg.graph.edges : Unresolved(eg.graph.edges[e].target))
         => res.fold.outcome = "NodeNotFound"
    /\ \A k \in DOMAIN res.fold.log :
         Len(res.fold.log[k].children)
           = Len(GraphNeighbors(eg.graph, res.fold.log[k].index))
    /\ res.fold.outcome = "ok" =>
         /\ \A i \in NodesOf(eg) : ~Unresolved(i)
         /\ Len(res.fold.log) = size(eg)
    /\ res.fold.outcome \in {"ok", "NodeNotFound"}

\* A parent with two children, the second of which cannot be resolved: the
\* first child has been folded when cata fails.
C15_Witness ==
  /\ res.op = "cata"
  /\ res.fold.outcome = "NodeNotFound"
  /\ size(eg) = 3
  /\ Len(GraphNeighbors(eg.graph, 0)) = 2
  /\ ~Unresolved(0)
  /\ Unresolved(GraphNeighbors(eg.graph, 0)[2])
  /\ ~Unresolved(GraphNeighbors(eg.graph, 0)[1])

\* ------------------------------------------------------------------------
\* The id <-> index maps of an EffectGraph
\* ------------------------------------------------------------------------

\* C16: after any sequence of addNode calls the id-to-index and index-to-id
\* maps are inverse of each other and cover every node of the graph: every
\* node's index is mapped to the node's id and that id back to the index.
C16_MappingsInverse ==
  /\ DOMAIN eg.indexToNodeId = NodesOf(eg)
  /\ \A i \in NodesOf(eg) :
       /\ i \in DOMAIN eg.indexToNodeId
       /\ eg.indexToNodeId[i] = eg.graph.nodes[i].id
       /\ eg.graph.nodes[i].id \in DOMAIN eg.nodeIdToIndex
       /\ eg.nodeIdToIndex[eg.graph.nodes[i].id] = i
  /\ \A id \in DOMAIN eg.nodeIdToIndex :
       /\ eg.nodeIdToIndex[id] \in DOMAIN eg.indexToNodeId
       /\ eg.indexToNodeId[eg.nodeIdToIndex[id]] = id

\* ------------------------------------------------------------------------
\* Roots, parent edges and parentId links
\* ------------------------------------------------------------------------

\* Indices of the sources of the edges into node i, one per edge.
IncomingEdges(i) == {e \in DOMAIN eg.graph.edges : eg.graph.edges[e].target = i}

\* C17: after any sequence of addNode calls getRoots returns exactly the
\* nodes whose parentId is None, and every node whose parentId is Some(p) has
\* exactly one incoming edge, which comes from a node with id p.
C17_RootsAndParentEdges ==
  /\ Range(GraphExternalsIncoming(eg.graph))
       = {i \in NodesOf(eg) : eg.graph.nodes[i].parentId = None}
  /\ Range(getRoots(eg))
       = {eg.graph.nodes[i] : i \in {j \in NodesOf(eg) : eg.graph.nodes[j].parentId = None}}
  /\ \A i \in NodesOf(eg) :
       eg.graph.nodes[i].parentId # None =>
         /\ Cardinality(IncomingEdges(i)) = 1
         /\ \A e \in IncomingEdges(i) :
              eg.graph.nodes[eg.graph.edges[e].source].id = eg.graph.nodes[i].parentId

\* The ids named as parentId by the nodes whose id is in S.
ParentIds(S) ==
  {eg.graph.nodes[i].parentId :
     i \in {j \in NodesOf(eg) : eg.graph.nodes[j].id \in S
                                 /\ eg.graph.nodes[j].parentId # None}}

RECURSIVE AncestorIds(_)
\* The ids reached from the ids of S by following parentId links, S included.
AncestorIds(S) ==
  LET T == S \cup ParentIds(S) IN IF T = S THEN S ELSE AncestorIds(T)

\* C18: after any sequence of addNode calls, with node ids and parentIds
\* chosen by the caller, no node is its own ancestor: following parentId
\* links from a node's id never leads back to that id.
C18_NoSelfAncestor ==
  \A i \in NodesOf(eg) :
    eg.graph.nodes[i].id \notin AncestorIds(ParentIds({eg.graph.nodes[i].id}))

\* ------------------------------------------------------------------------
\* filterNodes
\* ------------------------------------------------------------------------

\* C19: filterNodes returns a graph whose nodes are exactly the input nodes
\* satisfying the predicate (same index, same data) and whose edges are
\* exactly the input edges with both endpoints kept; no edge is added from
\* an ancestor to a descendant of a removed node, and the input graph is
\* unchanged.
C19_FilterNodes ==
  res.op = "filter" =>
    LET kept == {i \in DOMAIN dg.nodes : Predicate(res.predicate, dg.nodes[i])}
        keptEdges == {e \in DOMAIN dg.edges : /\ dg.edges[e].source \in kept
                                              /\ dg.edges[e].target \in kept}
    IN /\ DOMAIN res.result.nodes = kept
       /\ \A i \in kept : res.result.nodes[i] = dg.nodes[i]
       /\ DOMAIN res.result.edges = keptEdges
       /\ \A e \in keptEdges : res.result.edges[e] = dg.edges[e]
       /\ dg = res.before

\* The middle node of a chain is removed: its ancestor and its descendant
\* are kept, and both of its edges are gone.
C19_Witness ==
  /\ res.op = "filter"
  /\ Cardinality(DOMAIN dg.nodes) = 3
  /\ Cardinality(DOMAIN res.result.nodes) = 2
  /\ \E a, b, c \in DOMAIN dg.nodes :
       /\ {a, c} = DOMAIN res.result.nodes
       /\ b \notin DOMAIN res.result.nodes
       /\ \E e1, e2 \in DOMAIN dg.edges :
            /\ dg.edges[e1] = [source |-> a, target |-> b]
            /\ dg.edges[e2] = [source |-> b, target |-> c]
  /\ DOMAIN res.result.edges = {}

\* ------------------------------------------------------------------------
\* Traversal from an empty start list
\* ------------------------------------------------------------------------

\* C20: for every traversal order (dfs, bfs and topo) a traversal given an
\* empty start list on a graph that is not empty visits no node and raises
\* no error.
C20_EmptyStartVisitsNothing ==
  (res.op \in {"traverse", "topo"} /\ res.start = <<>> /\ DOMAIN dg.nodes # {}) =>
    /\ res.walk.outcome = "ok"
    /\ res.walk.visited = <<>>

\* ------------------------------------------------------------------------
\* Frequencies of an aggregation
\* ------------------------------------------------------------------------

\* Number of occurrences of term t in a token list.
Occurrences(tokens, t) == Cardinality({i \in DOMAIN tokens : tokens[i] = t})

RECURSIVE TotalOccurrences(_, _)
\* Number of occurrences of term t over a list of documents.
TotalOccurrences(documents, t) ==
  IF documents = <<>> THEN 0
  ELSE Occurrences(Head(documents).tokens, t) + TotalOccurrences(Tail(documents), t)

\* C21: after aggregating a list of documents, documentFrequency[t] is the
\* number of documents whose token list contains t, termFrequency[t] is the
\* number of occurrences of t over all documents (both maps have exactly the
\* terms that occur), and documentCount is the number of documents.
C21_FrequenciesCountDocuments ==
  res.op = "aggregate" =>
    LET st == StatsValue(res.stats)
        documents == corpus.documents
        terms == UNION {Range(documents[k].tokens) : k \in DOMAIN documents}
    IN /\ st.documentCount = Len(documents)
       /\ DOMAIN st.documentFrequency = terms
       /\ DOMAIN st.termFrequency = terms
       /\ \A t \in terms :
            /\ st.documentFrequency[t]
                 = Cardinality({k \in DOMAIN documents : t \in Range(documents[k].tokens)})
            /\ st.termFrequency[t] = TotalOccurrences(documents, t)

\* Three documents in two batches, with a term found three times in two of
\* them.
C21_Witness ==
  /\ res.op = "aggregate"
  /\ Len(corpus.documents) = 3
  /\ Len(corpus.batches) = 2
  /\ \E t \in DOMAIN StatsValue(res.stats).termFrequency :
       /\ StatsValue(res.stats).termFrequency[t] = 3
       /\ StatsValue(res.stats).documentFrequency[t] = 2

\* ------------------------------------------------------------------------
\* Batches and concurrency of an aggregation
\* ------------------------------------------------------------------------

\* C22: during one aggregation batches are processed strictly one after the
\* other and concurrency is bounded: no document of a batch has started
\* extraction before every document of every earlier batch has finished, and
\* at no time are more than config.concurrency extractions running.
C22_SequentialBatchesBoundedConcurrency ==
  corpus.pc \in {"batch", "done"} =>
    /\ Cardinality(corpus.startedDocs \ corpus.finishedDocs) <= corpus.concurrency
    /\ \A d \in corpus.startedDocs :
         \A b \in 1..(d[1] - 1) :
           \A k \in 1..Len(corpus.batches[b]) : <<b, k>> \in corpus.finishedDocs

\* The document of the second batch is being extracted after the two
\* documents of the first batch, which ran side by side, have finished.
C22_Witness ==
  /\ corpus.pc = "batch"
  /\ corpus.batch = 2
  /\ corpus.concurrency = 2
  /\ Len(corpus.batches[1]) = 2
  /\ corpus.startedDocs \ corpus.finishedDocs = {<<2, 1>>}

\* ------------------------------------------------------------------------
\* Order of the children results in cata
\* ------------------------------------------------------------------------

RECURSIVE FoldAt(_, _)
\* The fold result of the node at index i of an acyclic graph: the algebra
\* applied to the node and to the fold results of its children, in the order
\* of its child edges.
FoldAt(g, i) ==
  LET children == GraphNeighbors(g, i)
  IN algebra(g.nodes[i], [j \in 1..Len(children) |-> FoldAt(g, children[j])])

\* C23: in cata the children-results array passed to the algebra for a node
\* holds the fold results of that node's children, in the order in which
\* getChildren reports them, which is the order of their insertion.
C23_ChildrenResultsInOrder ==
  res.op = "cata" =>
    \A k \in DOMAIN res.fold.log :
      LET i == res.fold.log[k].index
          children == GraphNeighbors(eg.graph, i)
          reported == getChildren(eg, eg.graph.nodes[i].id)
      IN /\ reported = [j \in 1..Len(children) |-> eg.graph.nodes[children[j]]]
         /\ \A j \in 1..(Len(children) - 1) : children[j] < children[j + 1]
         /\ res.fold.log[k].children
              = [j \in 1..Len(children) |-> FoldAt(eg.graph, children[j])]

\* ------------------------------------------------------------------------
\* Early exit of queryIndexIntersection
\* ------------------------------------------------------------------------

\* The nodes that emitted each of the first n keys of the query.
RunningSet(n) ==
  {i \in DOMAIN dg.nodes : \A j \in 1..n : i \in Emitters(res.keyFn, res.keys[j])}

\* C24: queryIndexIntersection looks the keys up in order and stops as soon
\* as its running result set is empty: no key is looked up after the set
\* became empty (also when the first key has no matches), and the keys left
\* are skipped only then, with the empty result.
C24_IntersectionStopsWhenEmpty ==
  res.op = "query" =>
    LET looked == Len(res.lookups)
    IN /\ looked <= Len(res.keys)
       /\ res.lookups = SubSeq(res.keys, 1, looked)
       /\ \A n \in 1..(looked - 1) : RunningSet(n) # {}
       /\ looked < Len(res.keys) => (RunningSet(looked) = {} /\ res.intersection = <<>>)

\* Three keys: the first has matches, the second empties the set, the third
\* is never looked up.
C24_Witness ==
  /\ res.op = "query"
  /\ Len(res.keys) = 3
  /\ Len(res.lookups) = 2
  /\ RunningSet(1) # {}
  /\ Emitters(res.keyFn, res.keys[3]) # {}

\* ------------------------------------------------------------------------
\* TF-IDF weights
\* ------------------------------------------------------------------------

\* C25: the TF-IDF computation fails gracefully: when documentCount is 0, or
\* a term's documentFrequency is 0 or missing from the corpus statistics, the
\* weight of the term is 0, and no weight or idf value is infinite or NaN.
C25_TfidfGraceful ==
  /\ res.op = "idf" =>
       \A k \in DOMAIN res.idf : res.idf[k].count.kind \in {"zero", "finite"}
  /\ res.op = "tfidf" =>
       \A k \in DOMAIN res.vector :
         LET term == res.vector[k].term
             df == corpus.stats.documentFrequency
         IN /\ res.vector[k].count.kind \in {"zero", "finite"}
            /\ (\/ corpus.stats.documentCount = 0
                \/ ~MapHas(df, term)
                \/ MapGetOrZero(df, term) = 0) => res.vector[k].count = Zero

\* ------------------------------------------------------------------------
\* Cancellation of an aggregation
\* ------------------------------------------------------------------------

RECURSIVE Flatten(_)
\* The documents of a list of batches, in order.
Flatten(batches) ==
  IF batches = <<>> THEN <<>> ELSE Head(batches) \o Flatten(Tail(batches))

C27_AppendOnly ==
  /\ \A i \in NodesOf(eg) : getNode(eg, eg.graph.nodes[i].id) = eg.graph.nodes[i]
  /\ res.op = "addNode" =>
       /\ size(eg) = size(pre) + 1
       /\ \A i \in NodesOf(pre) : /\ i \in NodesOf(eg)
                                  /\ eg.graph.nodes[i] = pre.graph.nodes[i]
       /\ \A e \in DOMAIN pre.graph.edges : /\ e \in DOMAIN eg.graph.edges
                                            /\ eg.graph.edges[e] = pre.graph.edges[e]
       /\ \A id \in DOMAIN pre.nodeIdToIndex : getNode(eg, id) = getNode(pre, id)

\* C28: tokenizeNodes is idempotent for a deterministic tokenizer: applied to
\* its own output it adds no node and no edge, because every sentence node
\* that already has a token child is skipped.
C28_TokenizeIdempotent ==
  res.op = "tokenize" =>
    /\ res.twice = dg
    /\ \A idx \in DOMAIN res.before.nodes :
         (res.before.nodes[idx].type = "sentence" /\ hasTokenChildren(res.before, idx))
           => GraphNeighbors(dg, idx) = GraphNeighbors(res.before, idx)

\* Two sentences without tokens receive two tokens each in the first
\* application, which makes both of them skipped in the second.
C28_Witness ==
  /\ res.op = "tokenize"
  /\ res.tokenizer = "two"
  /\ \E i, j \in DOMAIN res.before.nodes :
       /\ i # j
       /\ \A s \in {i, j} :
            /\ res.before.nodes[s].type = "sentence"
            /\ ~hasTokenChildren(res.before, s)
            /\ Len(GraphNeighbors(dg, s)) = Len(GraphNeighbors(res.before, s)) + 2
            /\ hasTokenChildren(dg, s)
  /\ Cardinality(DOMAIN dg.nodes) = Cardinality(DOMAIN res.before.nodes) + 4
  /\ res.twice = dg

\* C29: for every key the list that buildIndex stores and queryIndex returns
\* is an ordered set: each node index at most once, in node insertion order,
\* also when the key function emits one key several times for one node.
C29_IndexListsAreOrderedSets ==
  res.op = "query" =>
    \A k \in Range(res.keys) :
      /\ NoRepeats(res.single[k])
      /\ res.single[k] = SortedSeq(Emitters(res.keyFn, k))

RECURSIVE SumCounts(_)
\* The sum of the counts of a frequency map.
SumCounts(m) == IF m = <<>> THEN 0 ELSE Head(m).count + SumCounts(Tail(m))

Terms(m) == {m[k].term : k \in DOMAIN m}

\* A statistics value whose parts agree with each other.
Consistent(st) ==
  /\ NoRepeats(st.vocabulary)
  /\ NoRepeats([k \in DOMAIN st.termFrequency |-> st.termFrequency[k].term])
  /\ NoRepeats([k \in DOMAIN st.documentFrequency |-> st.documentFrequency[k].term])
  /\ Range(st.vocabulary) = Terms(st.termFrequency)
  /\ Range(st.vocabulary) = Terms(st.documentFrequency)
  /\ SumCounts(st.termFrequency) = st.totalWords
  /\ \A t \in Range(st.vocabulary) :
       /\ 1 <= MapGetOrZero(st.documentFrequency, t)
       /\ MapGetOrZero(st.documentFrequency, t) <= st.documentCount
       /\ MapGetOrZero(st.documentFrequency, t) <= MapGetOrZero(st.termFrequency, t)

====
